---- MODULE Spec2Model ----
(***************************************************************************)
(* Model of the cutter-cube-scrambler core: the cubie model (core/cubie),  *)
(* the 18 face-turn operators (core/moves), the coordinate encodings and   *)
(* coordinate move tables (solver/kociemba/coordinates, 495-valued E-slice *)
(* variant), the pruning tables and heuristics (solver/kociemba/pruning),  *)
(* the IDA* searches (solver/kociemba/ida) and the solver orchestration    *)
(* (solver/kociemba/solver).                                               *)
(*                                                                         *)
(* Arrays are functions over 0..n-1 so that every index of the model is    *)
(* the index of the source.                                                *)
(***************************************************************************)
EXTENDS Integers, Sequences, FiniteSets, TLC

\* ------------------------------------------------------------------ bounds

\* Longest move sequence applied to build an input cube.
MaxScramble == 2

\* The per-phase depth caps (config.maxPhase1Depth = config.maxPhase2Depth)
\* the solver is run with.  IDA* returns the first solution of the smallest
\* depth, so a sequence found under this cap is the sequence found under any
\* larger cap, the default 18 included.
MaxCap == 2

\* Longest run of applyMove calls in the runs of the cubie operators.
MaxTurns == 2

\* The longest run of moves handed to simplifyMoveSequence.
MaxRun == 4

\* The longest string handed to parseMove, in characters.
MaxLen == 3

\* The draws of each Fisher-Yates shuffle of randomState that are free; the
\* draws after them leave their element in place.
MaxDraws == 1

\* ------------------------------------------------------------------ arrays

\* A 0-indexed array from a tuple literal.
Arr(s) == [i \in 0..(Len(s) - 1) |-> s[i + 1]]

NCorners == 8
NEdges == 12
NMoves == 18

CornerIdx == 0..(NCorners - 1)
EdgeIdx == 0..(NEdges - 1)
MoveIdx == 0..(NMoves - 1)

RECURSIVE SumTo(_, _)
\* reduce((sum, x) => sum + x, 0) over a[0..n]
SumTo(a, n) == IF n < 0 THEN 0 ELSE a[n] + SumTo(a, n - 1)

\* ------------------------------------------------------------------ cubie

solvedCube ==
  [cPerm |-> [i \in CornerIdx |-> i],
   cOri  |-> [i \in CornerIdx |-> 0],
   ePerm |-> [i \in EdgeIdx |-> i],
   eOri  |-> [i \in EdgeIdx |-> 0]]

\* a ^ b on bits
Xor(a, b) == (a + b) % 2

\* A plausible slip: the corner twist is added without the reduction modulo 3.
applyMoveNoMod(cube, move) ==
  [cPerm |-> [i \in CornerIdx |-> cube.cPerm[move.cornerPerm[i]]],
   cOri  |-> [i \in CornerIdx |-> cube.cOri[move.cornerPerm[i]] + move.cornerOriDelta[i]],
   ePerm |-> [i \in EdgeIdx |-> cube.ePerm[move.edgePerm[i]]],
   eOri  |-> [i \in EdgeIdx |-> Xor(cube.eOri[move.edgePerm[i]], move.edgeOriDelta[i])]]

applyMove(cube, move) ==
  [cPerm |-> [i \in CornerIdx |-> cube.cPerm[move.cornerPerm[i]]],
   cOri  |-> [i \in CornerIdx |->
                (cube.cOri[move.cornerPerm[i]] + move.cornerOriDelta[i]) % 3],
   ePerm |-> [i \in EdgeIdx |-> cube.ePerm[move.edgePerm[i]]],
   eOri  |-> [i \in EdgeIdx |->
                Xor(cube.eOri[move.edgePerm[i]], move.edgeOriDelta[i])]]

\* A plausible slip: the second move's deltas are added slot by slot, not
\* taken from the slot the first move brings in.
composeMovesDeltaInPlace(move1, move2) ==
  [cornerPerm     |-> [i \in CornerIdx |-> move2.cornerPerm[move1.cornerPerm[i]]],
   cornerOriDelta |-> [i \in CornerIdx |->
       (move1.cornerOriDelta[i] + move2.cornerOriDelta[i]) % 3],
   edgePerm       |-> [i \in EdgeIdx |-> move2.edgePerm[move1.edgePerm[i]]],
   edgeOriDelta   |-> [i \in EdgeIdx |->
       Xor(move1.edgeOriDelta[i], move2.edgeOriDelta[i])]]

composeMoves(move1, move2) ==
  [cornerPerm     |-> [i \in CornerIdx |-> move2.cornerPerm[move1.cornerPerm[i]]],
   cornerOriDelta |-> [i \in CornerIdx |->
       (move1.cornerOriDelta[i] + move2.cornerOriDelta[move1.cornerPerm[i]]) % 3],
   edgePerm       |-> [i \in EdgeIdx |-> move2.edgePerm[move1.edgePerm[i]]],
   edgeOriDelta   |-> [i \in EdgeIdx |->
       Xor(move1.edgeOriDelta[i], move2.edgeOriDelta[move1.edgePerm[i]])]]

\* The loop writes result[move.perm[i]] for i = 0, 1, ...: the last writer of
\* a slot wins.
LastSource(perm, idx, target) ==
  CHOOSE i \in idx : perm[i] = target /\ \A j \in idx : j > i => perm[j] # target

\* A plausible slip: the orientation deltas are negated in place, not moved
\* to the slot the piece came from.
invertMoveDeltaInPlace(move) ==
  [cornerPerm     |-> [t \in CornerIdx |-> LastSource(move.cornerPerm, CornerIdx, t)],
   cornerOriDelta |-> [t \in CornerIdx |-> (3 - move.cornerOriDelta[t]) % 3],
   edgePerm       |-> [t \in EdgeIdx |-> LastSource(move.edgePerm, EdgeIdx, t)],
   edgeOriDelta   |-> [t \in EdgeIdx |-> move.edgeOriDelta[t]]]

invertMove(move) ==
  [cornerPerm     |-> [t \in CornerIdx |-> LastSource(move.cornerPerm, CornerIdx, t)],
   cornerOriDelta |-> [t \in CornerIdx |->
       (3 - move.cornerOriDelta[LastSource(move.cornerPerm, CornerIdx, t)]) % 3],
   edgePerm       |-> [t \in EdgeIdx |-> LastSource(move.edgePerm, EdgeIdx, t)],
   edgeOriDelta   |-> [t \in EdgeIdx |->
       move.edgeOriDelta[LastSource(move.edgePerm, EdgeIdx, t)]]]

cubesEqual(cube1, cube2) ==
  /\ cube1.cPerm = cube2.cPerm
  /\ cube1.cOri = cube2.cOri
  /\ cube1.ePerm = cube2.ePerm
  /\ cube1.eOri = cube2.eOri

isSolved(cube) == cubesEqual(cube, solvedCube)

isValidPermutation(perm, n) ==
  /\ DOMAIN perm = 0..(n - 1)
  /\ \A i \in 0..(n - 1) : perm[i] >= 0 /\ perm[i] < n
  /\ \A i, j \in 0..(n - 1) : i # j => perm[i] # perm[j]

\* The slots of the cycle of perm through i, followed until it returns.
RECURSIVE CycleFrom(_, _, _)
CycleFrom(perm, j, seen) ==
  IF j \in seen THEN seen ELSE CycleFrom(perm, perm[j], seen \cup {j})

\* parity ^= (cycleLength + 1) & 1 for every cycle, cycles taken in order of
\* their least unseen slot.
RECURSIVE ParityFrom(_, _, _, _)
ParityFrom(perm, i, seen, parity) ==
  IF i >= NEdges \/ i \notin DOMAIN perm THEN parity
  ELSE IF i \in seen THEN ParityFrom(perm, i + 1, seen, parity)
  ELSE LET cyc == CycleFrom(perm, i, seen)
           cycleLength == Cardinality(cyc \ seen)
       IN ParityFrom(perm, i + 1, cyc, Xor(parity, (cycleLength + 1) % 2))

parityOfPermutation(perm) == ParityFrom(perm, 0, {}, 0)

isValidCube(cube) ==
  /\ isValidPermutation(cube.cPerm, NCorners)
  /\ isValidPermutation(cube.ePerm, NEdges)
  /\ parityOfPermutation(cube.cPerm) = parityOfPermutation(cube.ePerm)
  /\ SumTo(cube.cOri, NCorners - 1) % 3 = 0
  /\ SumTo(cube.eOri, NEdges - 1) % 2 = 0
  /\ \A i \in CornerIdx : cube.cOri[i] >= 0 /\ cube.cOri[i] <= 2
  /\ \A i \in EdgeIdx : cube.eOri[i] >= 0 /\ cube.eOri[i] <= 1

\* ------------------------------------------------------------------ moves

createUMove ==
  [cornerPerm     |-> Arr(<<3, 0, 1, 2, 4, 5, 6, 7>>),
   cornerOriDelta |-> Arr(<<0, 0, 0, 0, 0, 0, 0, 0>>),
   edgePerm       |-> Arr(<<3, 0, 1, 2, 4, 5, 6, 7, 8, 9, 10, 11>>),
   edgeOriDelta   |-> Arr(<<0, 0, 0, 0, 0, 0, 0, 0, 0, 0, 0, 0>>)]

createRMove ==
  [cornerPerm     |-> Arr(<<4, 1, 2, 0, 7, 5, 6, 3>>),
   cornerOriDelta |-> Arr(<<2, 0, 0, 1, 1, 0, 0, 2>>),
   edgePerm       |-> Arr(<<8, 1, 2, 3, 11, 5, 6, 7, 4, 9, 10, 0>>),
   edgeOriDelta   |-> Arr(<<0, 0, 0, 0, 0, 0, 0, 0, 0, 0, 0, 0>>)]

createFMove ==
  [cornerPerm     |-> Arr(<<1, 5, 2, 3, 0, 4, 6, 7>>),
   cornerOriDelta |-> Arr(<<1, 2, 0, 0, 2, 1, 0, 0>>),
   edgePerm       |-> Arr(<<0, 9, 2, 3, 4, 8, 6, 7, 1, 5, 10, 11>>),
   edgeOriDelta   |-> Arr(<<0, 1, 0, 0, 0, 1, 0, 0, 1, 1, 0, 0>>)]

createDMove ==
  [cornerPerm     |-> Arr(<<0, 1, 2, 3, 5, 6, 7, 4>>),
   cornerOriDelta |-> Arr(<<0, 0, 0, 0, 0, 0, 0, 0>>),
   edgePerm       |-> Arr(<<0, 1, 2, 3, 5, 6, 7, 4, 8, 9, 10, 11>>),
   edgeOriDelta   |-> Arr(<<0, 0, 0, 0, 0, 0, 0, 0, 0, 0, 0, 0>>)]

createLMove ==
  [cornerPerm     |-> Arr(<<0, 2, 6, 3, 4, 1, 5, 7>>),
   cornerOriDelta |-> Arr(<<0, 1, 2, 0, 0, 2, 1, 0>>),
   edgePerm       |-> Arr(<<0, 1, 10, 3, 4, 5, 9, 7, 8, 2, 6, 11>>),
   edgeOriDelta   |-> Arr(<<0, 0, 0, 0, 0, 0, 0, 0, 0, 0, 0, 0>>)]

\* moves.ts:307-320: UB <- BL, DB <- BR, BL <- UB, BR <- DB.
createBMove ==
  [cornerPerm     |-> Arr(<<0, 1, 3, 7, 4, 5, 2, 6>>),
   cornerOriDelta |-> Arr(<<0, 0, 1, 2, 0, 0, 2, 1>>),
   edgePerm       |-> Arr(<<0, 1, 2, 10, 4, 5, 6, 11, 8, 9, 3, 7>>),
   edgeOriDelta   |-> Arr(<<0, 0, 0, 1, 0, 0, 0, 1, 0, 0, 1, 1>>)]

\* MOVES, by Face index: U, R, F, D, L, B.
MOVES == Arr(<<createUMove, createRMove, createFMove,
               createDMove, createLMove, createBMove>>)

\* ALL_MOVES in MOVE_KEYS order: U, U2, Up, R, R2, Rp, F, F2, Fp, D, D2, Dp,
\* L, L2, Lp, B, B2, Bp.
derivedMove(k) ==
  LET base == MOVES[k \div 3]
  IN CASE k % 3 = 0 -> base
       [] k % 3 = 1 -> composeMoves(base, base)
       [] OTHER     -> invertMove(base)

\* Built once, as the module-level constant is.
ALL_MOVES ==
  LET each(derive(_)) == [k \in MoveIdx |-> derive(k)] IN each(derivedMove)

getMoveByIndex(index) == ALL_MOVES[index]

\* ------------------------------------------------------------------ notation

\* A MoveKey is a face letter and a suffix: "" (quarter turn), "2", "p".
Key(face, suffix) == [face |-> face, suffix |-> suffix]

MOVE_KEYS ==
  <<Key("U", ""), Key("U", "2"), Key("U", "p"),
    Key("R", ""), Key("R", "2"), Key("R", "p"),
    Key("F", ""), Key("F", "2"), Key("F", "p"),
    Key("D", ""), Key("D", "2"), Key("D", "p"),
    Key("L", ""), Key("L", "2"), Key("L", "p"),
    Key("B", ""), Key("B", "2"), Key("B", "p")>>

\* ALL_MOVES[key]: the operator stored under the key.
getMoveByKey(key) ==
  ALL_MOVES[(CHOOSE n \in 1..NMoves : MOVE_KEYS[n] = key) - 1]

\* moveIndices.map((idx) => MOVE_KEYS[idx])
moveIndicesToKeys(moveIndices) ==
  [n \in 1..Len(moveIndices) |-> MOVE_KEYS[moveIndices[n] + 1]]

\* A plausible slip: a quarter turn and its prime are left as they are.
invertMoveKeyIdentity(move) == move

invertMoveKey(move) ==
  IF move.suffix = "p" THEN Key(move.face, "")
  ELSE IF move.suffix = "2" THEN move
  ELSE Key(move.face, "p")

\* A plausible slip: every move is inverted but the order is kept.
invertMoveSequenceInOrder(moves) ==
  [n \in 1..Len(moves) |-> invertMoveKey(moves[n])]

invertMoveSequence(moves) ==
  [n \in 1..Len(moves) |-> invertMoveKey(moves[Len(moves) + 1 - n])]

RECURSIVE applyMoveSequence(_, _)
applyMoveSequence(cube, moves) ==
  IF moves = <<>> THEN cube
  ELSE applyMoveSequence(applyMove(cube, getMoveByKey(Head(moves))), Tail(moves))

\* getMoveQuarterTurns: a move as a number of quarter turns.
getMoveQuarterTurns(move) ==
  IF move.suffix = "2" THEN 2 ELSE IF move.suffix = "p" THEN 3 ELSE 1

\* combineSameFaceMoves' null.
NoMove == Key("", "null")

\* A plausible slip: three quarter turns come back as the half turn.
quarterTurnsToMoveThreeAsTwo(face, turns) ==
  CASE turns = 0 -> NoMove
    [] turns = 1 -> Key(face, "")
    [] turns = 2 -> Key(face, "2")
    [] turns = 3 -> Key(face, "2")

quarterTurnsToMove(face, turns) ==
  CASE turns = 0 -> NoMove
    [] turns = 1 -> Key(face, "")
    [] turns = 2 -> Key(face, "2")
    [] turns = 3 -> Key(face, "p")

\* getFaceFromMove is the key's face letter.
combineSameFaceMoves(move1, move2) ==
  quarterTurnsToMove(move1.face,
                     (getMoveQuarterTurns(move1) + getMoveQuarterTurns(move2)) % 4)

\* simplifyMoveSequence: `absorb` is the while loop that pops the moves of
\* currentMove's face off result and the push that follows it, `from` the for
\* loop from moves[i] on.
simplifyMoveSequence(moves) ==
  LET RECURSIVE absorb(_, _)
      absorb(result, currentMove) ==
        IF result # <<>> /\ result[Len(result)].face = currentMove.face
        THEN LET combined == combineSameFaceMoves(result[Len(result)], currentMove)
             IN IF combined = NoMove
                THEN SubSeq(result, 1, Len(result) - 1)
                ELSE absorb(SubSeq(result, 1, Len(result) - 1), combined)
        ELSE Append(result, currentMove)
      RECURSIVE from(_, _)
      from(i, result) ==
        IF i > Len(moves) THEN result ELSE from(i + 1, absorb(result, moves[i]))
  IN from(1, <<>>)

\* A string is a sequence of characters.  The name ALL_MOVES stores a key
\* under: its face, then its suffix.
keyName(key) == IF key.suffix = "" THEN <<key.face>> ELSE <<key.face, key.suffix>>

\* A plausible slip: the string is not brought to upper case.
parseMoveKeepsCase(moveStr) ==
  LET isSpace(ch) == ch = " "
      RECURSIVE trimStart(_)
      trimStart(str) ==
        IF str # <<>> /\ isSpace(Head(str)) THEN trimStart(Tail(str)) ELSE str
      RECURSIVE trimEnd(_)
      trimEnd(str) ==
        IF str # <<>> /\ isSpace(str[Len(str)])
        THEN trimEnd(SubSeq(str, 1, Len(str) - 1)) ELSE str
      normalized == trimEnd(trimStart(moveStr))
      primeMove ==
        IF normalized # <<>> /\ normalized[Len(normalized)] \in {"'", "P"}
        THEN SubSeq(normalized, 1, Len(normalized) - 1) \o <<"p">>
        ELSE normalized
  IN IF \E n \in 1..NMoves : keyName(MOVE_KEYS[n]) = primeMove
     THEN MOVE_KEYS[CHOOSE n \in 1..NMoves : keyName(MOVE_KEYS[n]) = primeMove]
     ELSE NoMove

\* parseMove: normalized = moveStr.trim().toUpperCase(); primeMove =
\* normalized.replace(/['P]$/, "p"); primeMove in ALL_MOVES ? primeMove : null.
\* toUpperCase is given on the characters of TokenInputs.
parseMove(moveStr) ==
  LET isSpace(ch) == ch = " "
      RECURSIVE trimStart(_)
      trimStart(str) ==
        IF str # <<>> /\ isSpace(Head(str)) THEN trimStart(Tail(str)) ELSE str
      RECURSIVE trimEnd(_)
      trimEnd(str) ==
        IF str # <<>> /\ isSpace(str[Len(str)])
        THEN trimEnd(SubSeq(str, 1, Len(str) - 1)) ELSE str
      upper(ch) == CASE ch = "u" -> "U" [] ch = "r" -> "R" [] ch = "p" -> "P"
                     [] OTHER -> ch
      toUpperCase(str) == [n \in 1..Len(str) |-> upper(str[n])]
      normalized == toUpperCase(trimEnd(trimStart(moveStr)))
      primeMove ==
        IF normalized # <<>> /\ normalized[Len(normalized)] \in {"'", "P"}
        THEN SubSeq(normalized, 1, Len(normalized) - 1) \o <<"p">>
        ELSE normalized
  IN IF \E n \in 1..NMoves : keyName(MOVE_KEYS[n]) = primeMove
     THEN MOVE_KEYS[CHOOSE n \in 1..NMoves : keyName(MOVE_KEYS[n]) = primeMove]
     ELSE NoMove

\* ------------------------------------------------------------------ coordinates

EO_SIZE == 2048
CO_SIZE == 2187
ESLICE_SIZE == 495
CP_SIZE == 40320
UDEP_SIZE == 40320
EP_SIZE == 24

ESliceMax == 494

E_EDGES == Arr(<<8, 9, 10, 11>>)

RECURSIVE getEOFrom(_, _, _)
\* for (i = 0; i < 11; i++) coord = (coord << 1) | eOri[i], the eOri being bits
getEOFrom(eOri, i, coord) ==
  IF i >= NEdges - 1 THEN coord ELSE getEOFrom(eOri, i + 1, coord * 2 + eOri[i])

getEdgeOrientation(cube) == getEOFrom(cube.eOri, 0, 0)

RECURSIVE Pow(_, _)
Pow(b, e) == IF e = 0 THEN 1 ELSE b * Pow(b, e - 1)

\* A plausible slip: the loop runs over the slots upwards, slot i taking bit i.
setEdgeOrientationAscending(cube, coord) ==
  LET bits == [i \in 0..(NEdges - 2) |-> (coord \div Pow(2, i)) % 2]
  IN [cube EXCEPT !.eOri =
        [i \in EdgeIdx |-> IF i < NEdges - 1 THEN bits[i]
                           ELSE SumTo(bits, NEdges - 2) % 2]]

\* Slot i (10 down to 0) takes the bit the loop has shifted down to: bit 10 - i.
setEdgeOrientation(cube, coord) ==
  LET bits == [i \in 0..(NEdges - 2) |-> (coord \div Pow(2, NEdges - 2 - i)) % 2]
  IN [cube EXCEPT !.eOri =
        [i \in EdgeIdx |-> IF i < NEdges - 1 THEN bits[i]
                           ELSE SumTo(bits, NEdges - 2) % 2]]

RECURSIVE getCOFrom(_, _, _)
getCOFrom(cOri, i, coord) ==
  IF i >= NCorners - 1 THEN coord ELSE getCOFrom(cOri, i + 1, coord * 3 + cOri[i])

getCornerOrientation(cube) == getCOFrom(cube.cOri, 0, 0)

setCornerOrientation(cube, coord) ==
  LET digits == [i \in 0..(NCorners - 2) |-> (coord \div Pow(3, NCorners - 2 - i)) % 3]
  IN [cube EXCEPT !.cOri =
        [i \in CornerIdx |-> IF i < NCorners - 1 THEN digits[i]
                             ELSE (3 - (SumTo(digits, NCorners - 2) % 3)) % 3]]

RECURSIVE binomialFrom(_, _, _, _)
\* result = (result * (n - i)) / (i + 1): every quotient is exact
binomialFrom(n, k, i, result) ==
  IF i >= k THEN result ELSE binomialFrom(n, k, i + 1, (result * (n - i)) \div (i + 1))

binomial(n, k) ==
  IF k > n \/ k < 0 THEN 0
  ELSE IF k = 0 \/ k = n THEN 1
  ELSE binomialFrom(n, k, 0, 1)

RECURSIVE getESliceFromKeepR(_, _, _, _)
\* A plausible slip: r is not decremented when an E-slice edge is met.
getESliceFromKeepR(ePerm, i, r, coord) ==
  IF i < 0 THEN coord
  ELSE IF ePerm[i] >= 8 THEN getESliceFromKeepR(ePerm, i - 1, r, coord + binomial(i, r))
  ELSE getESliceFromKeepR(ePerm, i - 1, r, coord)

RECURSIVE getESliceFrom(_, _, _, _)
getESliceFrom(ePerm, i, r, coord) ==
  IF i < 0 THEN coord
  ELSE IF ePerm[i] >= 8 THEN getESliceFrom(ePerm, i - 1, r - 1, coord + binomial(i, r))
  ELSE getESliceFrom(ePerm, i - 1, r, coord)

getESlice(cube) == ESliceMax - getESliceFrom(cube.ePerm, NEdges - 1, 4, 0)

RECURSIVE setESliceFrom(_, _, _, _)
setESliceFrom(ePerm, i, r, c) ==
  IF i < 0 THEN ePerm
  ELSE IF c >= binomial(i, r)
       THEN setESliceFrom([ePerm EXCEPT ![i] = 8 + (4 - r)], i - 1, r - 1, c - binomial(i, r))
       ELSE setESliceFrom([ePerm EXCEPT ![i] = 0], i - 1, r, c)

setESlice(cube, rawCoord) ==
  [cube EXCEPT !.ePerm =
     setESliceFrom([i \in EdgeIdx |-> 0], NEdges - 1, 4, ESliceMax - rawCoord)]

RECURSIVE Factorial(_)
Factorial(n) == IF n <= 1 THEN 1 ELSE n * Factorial(n - 1)

\* rank of perm[i]: the j > i with perm[j] < perm[i]
RankAt(perm, n, i) == Cardinality({j \in (i + 1)..(n - 1) : perm[j] < perm[i]})

RECURSIVE permToIndexFrom(_, _, _, _, _)
permToIndexFrom(perm, n, i, factorial, index) ==
  IF i >= n THEN index
  ELSE LET f == factorial \div (n - i)
       IN permToIndexFrom(perm, n, i + 1, f, index + RankAt(perm, n, i) * f)

\* perm is an array over 0..n-1
permutationToIndex(perm, n) == permToIndexFrom(perm, n, 0, Factorial(n), 0)

RECURSIVE indexToPermFrom(_, _, _, _, _)
indexToPermFrom(perm, n, i, factorial, index) ==
  IF i >= n THEN perm
  ELSE LET f == factorial \div (n - i)
           rank == index \div f
           moved == [j \in 0..(n - 1) |->
                       IF j = i THEN perm[i + rank]
                       ELSE IF j > i /\ j <= i + rank THEN perm[j - 1]
                       ELSE perm[j]]
       IN indexToPermFrom(moved, n, i + 1, f, index % f)

indexToPermutation(index, n) ==
  indexToPermFrom([i \in 0..(n - 1) |-> i], n, 0, Factorial(n), index)

getCornerPermutation(cube) == permutationToIndex(cube.cPerm, NCorners)

setCornerPermutation(cube, coord) ==
  [cube EXCEPT !.cPerm = indexToPermutation(coord, NCorners)]

\* permutationToIndex(cube.ePerm.slice(0, 8))
getUDEdgePermutation(cube) ==
  permutationToIndex([i \in 0..7 |-> cube.ePerm[i]], 8)

setUDEdgePermutation(cube, coord) ==
  LET perm == indexToPermutation(coord, 8)
  IN [cube EXCEPT !.ePerm = [i \in EdgeIdx |-> IF i < 8 THEN perm[i] ELSE cube.ePerm[i]]]

getESlicePermutation(cube) ==
  permutationToIndex([i \in 0..3 |-> cube.ePerm[8 + i] - 8], 4)

setESlicePermutation(cube, coord) ==
  LET perm == indexToPermutation(coord, 4)
  IN [cube EXCEPT !.ePerm =
        [i \in EdgeIdx |-> IF i >= 8 THEN E_EDGES[perm[i - 8]] ELSE cube.ePerm[i]]]

\* The six coordinates as initializeMoveTables lists them: size, getCoord and
\* setCoord of each buildCoordinateMoveTable call.
COORDS == {"eo", "co", "eslice", "cp", "udep", "ep"}

sizeOf(c) ==
  CASE c = "eo"     -> EO_SIZE
    [] c = "co"     -> CO_SIZE
    [] c = "eslice" -> ESLICE_SIZE
    [] c = "cp"     -> CP_SIZE
    [] c = "udep"   -> UDEP_SIZE
    [] c = "ep"     -> EP_SIZE

getCoord(c, cube) ==
  CASE c = "eo"     -> getEdgeOrientation(cube)
    [] c = "co"     -> getCornerOrientation(cube)
    [] c = "eslice" -> getESlice(cube)
    [] c = "cp"     -> getCornerPermutation(cube)
    [] c = "udep"   -> getUDEdgePermutation(cube)
    [] c = "ep"     -> getESlicePermutation(cube)

setCoord(c, cube, coord) ==
  CASE c = "eo"     -> setEdgeOrientation(cube, coord)
    [] c = "co"     -> setCornerOrientation(cube, coord)
    [] c = "eslice" -> setESlice(cube, coord)
    [] c = "cp"     -> setCornerPermutation(cube, coord)
    [] c = "udep"   -> setUDEdgePermutation(cube, coord)
    [] c = "ep"     -> setESlicePermutation(cube, coord)

\* XX_MOVE_TABLE[moveIdx][coord], as buildCoordinateMoveTable fills it: decode
\* coord on a solved cube, turn, encode.
applyMoveToEO(coord, moveIdx) ==
  getEdgeOrientation(applyMove(setEdgeOrientation(solvedCube, coord), ALL_MOVES[moveIdx]))

\* A plausible slip: the table entry is read from tempCube, not resultCube.
applyMoveToCOUnmoved(coord, moveIdx) ==
  getCornerOrientation(setCornerOrientation(solvedCube, coord))

applyMoveToCO(coord, moveIdx) ==
  getCornerOrientation(applyMove(setCornerOrientation(solvedCube, coord), ALL_MOVES[moveIdx]))

applyMoveToESlice(coord, moveIdx) ==
  getESlice(applyMove(setESlice(solvedCube, coord), ALL_MOVES[moveIdx]))

applyMoveToCP(coord, moveIdx) ==
  getCornerPermutation(applyMove(setCornerPermutation(solvedCube, coord), ALL_MOVES[moveIdx]))

applyMoveToUDEP(coord, moveIdx) ==
  getUDEdgePermutation(applyMove(setUDEdgePermutation(solvedCube, coord), ALL_MOVES[moveIdx]))

applyMoveToEP(coord, moveIdx) ==
  getESlicePermutation(applyMove(setESlicePermutation(solvedCube, coord), ALL_MOVES[moveIdx]))

applyMoveToCP_EP(coord, moveIdx) ==
  applyMoveToCP(coord \div EP_SIZE, moveIdx) * EP_SIZE + applyMoveToEP(coord % EP_SIZE, moveIdx)

applyMoveToUDEP_EP(coord, moveIdx) ==
  applyMoveToUDEP(coord \div EP_SIZE, moveIdx) * EP_SIZE + applyMoveToEP(coord % EP_SIZE, moveIdx)

\* A plausible slip: some where every is meant.
isInG1SomeSliceEdge(cube) ==
  /\ \A i \in EdgeIdx : cube.eOri[i] = 0
  /\ \E k \in 0..3 : \E pos \in 8..11 : cube.ePerm[pos] = E_EDGES[k]

isInG1(cube) ==
  /\ \A i \in EdgeIdx : cube.eOri[i] = 0
  /\ \A k \in 0..3 : \E pos \in 8..11 : cube.ePerm[pos] = E_EDGES[k]

getPhase1Coord(cube) ==
  [eo |-> getEdgeOrientation(cube),
   co |-> getCornerOrientation(cube),
   eslice |-> getESlice(cube)]

getPhase2Coord(cube) ==
  [cp |-> getCornerPermutation(cube),
   udep |-> getUDEdgePermutation(cube),
   ep |-> getESlicePermutation(cube)]

\* ------------------------------------------------------------------ pruning

MAX_DISTANCE == 20
UNKNOWN_DISTANCE == 255

\* The breadth-first layers are built up to this distance from the goal.  An
\* entry farther away holds a stored value greater than the horizon (a
\* distance up to MAX_DISTANCE, or UNKNOWN_DISTANCE); the searches, run with
\* caps of at most MaxCap, only ever ask whether a stored value exceeds a
\* number that is at most MaxCap.
PruneHorizon == MaxCap

Min(a, b) == IF a < b THEN a ELSE b
Max(a, b) == IF a > b THEN a ELSE b

PHASE1_MOVES == [n \in 1..NMoves |-> n - 1]

\* A plausible slip: R where R2 is meant.
PHASE2_MOVES_WithR == <<0, 1, 2, 9, 10, 11, 3, 13, 7, 16>>

PHASE2_MOVES == <<0, 1, 2, 9, 10, 11, 4, 13, 7, 16>>

Range(seq) == {seq[n] : n \in 1..Len(seq)}

\* initializePruningTables' list: the move function each table is built with.
tableFunc(name, coord, moveIdx) ==
  CASE name = "eo_pruning"      -> applyMoveToEO(coord, moveIdx)
    [] name = "co_pruning"      -> applyMoveToCO(coord, moveIdx)
    [] name = "eslice_pruning"  -> applyMoveToESlice(coord, moveIdx)
    [] name = "cp_pruning"      -> applyMoveToCP(coord, moveIdx)
    [] name = "udep_pruning"    -> applyMoveToUDEP(coord, moveIdx)
    [] name = "ep_pruning"      -> applyMoveToEP(coord, moveIdx)
    [] name = "cp_ep_pruning"   -> applyMoveToCP_EP(coord, moveIdx)
    [] name = "udep_ep_pruning" -> applyMoveToUDEP_EP(coord, moveIdx)

RECURSIVE bfsLayersSkipLast(_, _, _, _, _)
\* A plausible slip: the loop over allowedMoves stops one move short.
bfsLayersSkipLast(name, allowedMoves, table, frontier, d) ==
  IF frontier = {} \/ d >= MAX_DISTANCE - 1 \/ d >= PruneHorizon THEN table
  ELSE LET next == {tableFunc(name, c, allowedMoves[n]) :
                      c \in frontier, n \in 1..(Len(allowedMoves) - 1)} \ DOMAIN table
       IN bfsLayersSkipLast(name, allowedMoves,
                            table @@ [k \in next |-> Min(d + 1, MAX_DISTANCE)], next, d + 1)

RECURSIVE bfsLayers(_, _, _, _, _)
\* One pass of the while loop per distance: every coordinate dequeued at
\* distance d sets the unknown successors to d + 1 and enqueues them.
bfsLayers(name, allowedMoves, table, frontier, d) ==
  IF frontier = {} \/ d >= MAX_DISTANCE - 1 \/ d >= PruneHorizon THEN table
  ELSE LET next == {tableFunc(name, c, m) : c \in frontier, m \in Range(allowedMoves)}
                     \ DOMAIN table
       IN bfsLayers(name, allowedMoves,
                    table @@ [k \in next |-> Min(d + 1, MAX_DISTANCE)], next, d + 1)

\* A plausible slip: the goal is entered at distance 1.
buildPruningTableFromOne(name, allowedMoves) ==
  bfsLayers(name, allowedMoves, [k \in {0} |-> 1], {0}, 1)

\* goalCoord = 0
buildPruningTable(name, allowedMoves) ==
  bfsLayers(name, allowedMoves, [k \in {0} |-> 0], {0}, 0)

\* initializePruningTables: for (const {table, func, moves} of tables)
\* buildPruningTable(table, func, 0, moves).  Each table is built once and
\* kept: TLC keeps the value of a constant that is built through an operator
\* argument.
builtTable(name, allowedMoves) ==
  LET run(build(_, _)) == build(name, allowedMoves) IN run(buildPruningTable)

EOPruningTable == builtTable("eo_pruning", PHASE1_MOVES)
COPruningTable == builtTable("co_pruning", PHASE1_MOVES)
ESlicePruningTable == builtTable("eslice_pruning", PHASE1_MOVES)
CPPruningTable == builtTable("cp_pruning", PHASE2_MOVES)
UDEPPruningTable == builtTable("udep_pruning", PHASE2_MOVES)
EPPruningTable == builtTable("ep_pruning", PHASE2_MOVES)
CP_EP_PruningTable == builtTable("cp_ep_pruning", PHASE2_MOVES)
UDEP_EP_PruningTable == builtTable("udep_ep_pruning", PHASE2_MOVES)

\* The tables by name, and the moves initializePruningTables builds each with.
TABLES ==
  {"eo_pruning", "co_pruning", "eslice_pruning", "cp_pruning", "udep_pruning",
   "ep_pruning", "cp_ep_pruning", "udep_ep_pruning"}

tableOf(name) ==
  CASE name = "eo_pruning"      -> EOPruningTable
    [] name = "co_pruning"      -> COPruningTable
    [] name = "eslice_pruning"  -> ESlicePruningTable
    [] name = "cp_pruning"      -> CPPruningTable
    [] name = "udep_pruning"    -> UDEPPruningTable
    [] name = "ep_pruning"      -> EPPruningTable
    [] name = "cp_ep_pruning"   -> CP_EP_PruningTable
    [] name = "udep_ep_pruning" -> UDEP_EP_PruningTable

movesOf(name) ==
  IF name \in {"eo_pruning", "co_pruning", "eslice_pruning"} THEN PHASE1_MOVES
  ELSE PHASE2_MOVES

\* PruningTable.get: every entry is UNKNOWN_DISTANCE until the table is built.
PruningGet(built, table, index) ==
  IF ~built THEN UNKNOWN_DISTANCE
  ELSE IF index \in DOMAIN table THEN table[index]
  ELSE PruneHorizon + 1

\* A plausible slip: the three distances are added, not maximised.
phase1HeuristicSum(built, eo, co, eslice) ==
  PruningGet(built, EOPruningTable, eo) + PruningGet(built, COPruningTable, co)
    + PruningGet(built, ESlicePruningTable, eslice)

phase1Heuristic(built, eo, co, eslice) ==
  Max(PruningGet(built, EOPruningTable, eo),
      Max(PruningGet(built, COPruningTable, co),
          PruningGet(built, ESlicePruningTable, eslice)))

phase2Heuristic(built, cp, udep, ep) ==
  Max(PruningGet(built, CP_EP_PruningTable, cp * EP_SIZE + ep),
      PruningGet(built, UDEP_EP_PruningTable, udep * EP_SIZE + ep))

\* ------------------------------------------------------------------ ida

\* A search result: found = FALSE is the null result.
NoSolution == [found |-> FALSE, solution |-> <<>>]
Found(seq) == [found |-> TRUE, solution |-> seq]

\* A plausible slip: the moves are compared, not their faces.
shouldSkipMoveSameMove(moveIdx, lastMove, allowedMoves) ==
  IF lastMove = -1 THEN FALSE
  ELSE moveIdx = lastMove

shouldSkipMove(moveIdx, lastMove, allowedMoves) ==
  IF lastMove = -1 THEN FALSE
  ELSE (moveIdx \div 3) = (lastMove \div 3)

\* if (result !== null) return [moveIdx, ...result]; otherwise the loop goes on
\* with the moves that remain.
prependOrContinue(moveIdx, result, remaining) ==
  IF result.found THEN Found(<<moveIdx>> \o result.solution) ELSE remaining

\* if (result !== null) return {solution: result, depth}; otherwise the next
\* depth is tried.
foundAtOrDeepen(result, depth, deeper) ==
  IF result.found
  THEN [found |-> TRUE, solution |-> result.solution, depth |-> depth]
  ELSE deeper

\* The coordinates after a move, read from the three phase-1 move tables.
nextPhase1Coord(coord, moveIdx) ==
  [eo |-> applyMoveToEO(coord.eo, moveIdx),
   co |-> applyMoveToCO(coord.co, moveIdx),
   eslice |-> applyMoveToESlice(coord.eslice, moveIdx)]

RECURSIVE searchPhase1Depth(_, _, _, _, _)
RECURSIVE tryPhase1Moves(_, _, _, _, _, _)

\* The for loop over PHASE1_MOVES, from its n-th move on.
tryPhase1Moves(built, coord, depth, currentDepth, lastMove, n) ==
  IF n > Len(PHASE1_MOVES) THEN NoSolution
  ELSE IF shouldSkipMove(PHASE1_MOVES[n], lastMove, PHASE1_MOVES)
  THEN tryPhase1Moves(built, coord, depth, currentDepth, lastMove, n + 1)
  ELSE prependOrContinue(
         PHASE1_MOVES[n],
         searchPhase1Depth(built, nextPhase1Coord(coord, PHASE1_MOVES[n]), depth,
                           currentDepth + 1, PHASE1_MOVES[n]),
         tryPhase1Moves(built, coord, depth, currentDepth, lastMove, n + 1))

searchPhase1Depth(built, coord, depth, currentDepth, lastMove) ==
  IF coord.eo = 0 /\ coord.eslice = 0 THEN Found(<<>>)
  ELSE IF currentDepth + phase1Heuristic(built, coord.eo, coord.co, coord.eslice) > depth
       THEN NoSolution
  ELSE IF currentDepth >= depth THEN NoSolution
  ELSE tryPhase1Moves(built, coord, depth, currentDepth, lastMove, 1)

RECURSIVE deepenPhase1(_, _, _, _)
\* for (depth = ...; depth <= maxDepth; depth++)
deepenPhase1(built, startCoord, depth, maxDepth) ==
  IF depth > maxDepth THEN [found |-> FALSE, solution |-> <<>>, depth |-> 0]
  ELSE foundAtOrDeepen(searchPhase1Depth(built, startCoord, depth, 0, -1), depth,
                       deepenPhase1(built, startCoord, depth + 1, maxDepth))

\* A plausible slip: the deepening loop runs one depth past the cap.
searchPhase1PastCap(built, startCoord, maxDepth) ==
  IF startCoord.eo = 0 /\ startCoord.eslice = 0
  THEN [found |-> TRUE, solution |-> <<>>, depth |-> 0]
  ELSE deepenPhase1(built, startCoord,
         Max(1, phase1Heuristic(built, startCoord.eo, startCoord.co, startCoord.eslice)),
         maxDepth + 1)

searchPhase1(built, startCoord, maxDepth) ==
  IF startCoord.eo = 0 /\ startCoord.eslice = 0
  THEN [found |-> TRUE, solution |-> <<>>, depth |-> 0]
  ELSE deepenPhase1(built, startCoord,
         Max(1, phase1Heuristic(built, startCoord.eo, startCoord.co, startCoord.eslice)),
         maxDepth)

\* The coordinates after a move, read from the three phase-2 move tables.
nextPhase2Coord(coord, moveIdx) ==
  [cp |-> applyMoveToCP(coord.cp, moveIdx),
   udep |-> applyMoveToUDEP(coord.udep, moveIdx),
   ep |-> applyMoveToEP(coord.ep, moveIdx)]

RECURSIVE searchPhase2Depth(_, _, _, _, _)
RECURSIVE tryPhase2Moves(_, _, _, _, _, _)

\* A plausible slip: the position in PHASE2_MOVES is returned, not the move.
tryPhase2MovesReturnsPosition(built, coord, depth, currentDepth, lastMove, n) ==
  IF n > Len(PHASE2_MOVES) THEN NoSolution
  ELSE IF shouldSkipMove(PHASE2_MOVES[n], lastMove, PHASE2_MOVES)
  THEN tryPhase2Moves(built, coord, depth, currentDepth, lastMove, n + 1)
  ELSE prependOrContinue(
         n - 1,
         searchPhase2Depth(built, nextPhase2Coord(coord, PHASE2_MOVES[n]), depth,
                           currentDepth + 1, PHASE2_MOVES[n]),
         tryPhase2Moves(built, coord, depth, currentDepth, lastMove, n + 1))

\* The for loop over PHASE2_MOVES, from its n-th move on.
tryPhase2Moves(built, coord, depth, currentDepth, lastMove, n) ==
  IF n > Len(PHASE2_MOVES) THEN NoSolution
  ELSE IF shouldSkipMove(PHASE2_MOVES[n], lastMove, PHASE2_MOVES)
  THEN tryPhase2Moves(built, coord, depth, currentDepth, lastMove, n + 1)
  ELSE prependOrContinue(
         PHASE2_MOVES[n],
         searchPhase2Depth(built, nextPhase2Coord(coord, PHASE2_MOVES[n]), depth,
                           currentDepth + 1, PHASE2_MOVES[n]),
         tryPhase2Moves(built, coord, depth, currentDepth, lastMove, n + 1))

searchPhase2Depth(built, coord, depth, currentDepth, lastMove) ==
  IF coord.cp = 0 /\ coord.udep = 0 /\ coord.ep = 0 THEN Found(<<>>)
  ELSE IF currentDepth + phase2Heuristic(built, coord.cp, coord.udep, coord.ep) > depth
       THEN NoSolution
  ELSE IF currentDepth >= depth THEN NoSolution
  ELSE tryPhase2Moves(built, coord, depth, currentDepth, lastMove, 1)

RECURSIVE deepenPhase2(_, _, _, _)
deepenPhase2(built, startCoord, depth, maxDepth) ==
  IF depth > maxDepth THEN [found |-> FALSE, solution |-> <<>>, depth |-> 0]
  ELSE foundAtOrDeepen(searchPhase2Depth(built, startCoord, depth, 0, -1), depth,
                       deepenPhase2(built, startCoord, depth + 1, maxDepth))

searchPhase2(built, startCoord, maxDepth) ==
  IF startCoord.cp = 0 /\ startCoord.udep = 0 /\ startCoord.ep = 0
  THEN [found |-> TRUE, solution |-> <<>>, depth |-> 0]
  ELSE deepenPhase2(built, startCoord,
         Max(1, phase2Heuristic(built, startCoord.cp, startCoord.udep, startCoord.ep)),
         maxDepth)

\* ------------------------------------------------------------------ solver

\* new KociembaSolver({maxPhase1Depth: MaxCap, maxPhase2Depth: MaxCap})
\* maxTotalDepth is smaller than the two phase caps together, as in
\* DEFAULT_CONFIG (30 < 18 + 18).
config == [maxPhase1Depth |-> MaxCap, maxPhase2Depth |-> MaxCap,
           maxTotalDepth |-> 2 * MaxCap - 1]

\* The error texts, up to the detail appended to them.
ErrNone == ""
ErrPhase1 == "Phase 1 search failed"
ErrPhase2 == "Phase 2 search failed"
ErrG1 == "Failed to reach G1 subgroup in Phase 1"
ErrVerify == "Solution verification failed"

\* The Solution fields the callers read; stats keeps totalDepth.
Solution(moves, scramble, phase1Moves, phase2Moves, totalDepth, success, error) ==
  [moves |-> moves, scramble |-> scramble, phase1Moves |-> phase1Moves,
   phase2Moves |-> phase2Moves, totalDepth |-> totalDepth,
   success |-> success, error |-> error]

\* What a phase hands back to solve; searched records whether the phase's
\* IDA* search was called (it is not a Solution field).
PhaseResult(success, moves, error, searched) ==
  [success |-> success, moves |-> moves, error |-> error, searched |-> searched]

\* A plausible slip: the failure result carries no error text.
phase1FromSearchNoError(searchResult) ==
  IF ~searchResult.found
  THEN PhaseResult(FALSE, <<>>, ErrNone, TRUE)
  ELSE PhaseResult(TRUE, moveIndicesToKeys(searchResult.solution), ErrNone, TRUE)

\* solvePhase1 once searchPhase1 has returned.
phase1FromSearch(searchResult) ==
  IF ~searchResult.found
  THEN PhaseResult(FALSE, <<>>, ErrPhase1, TRUE)
  ELSE PhaseResult(TRUE, moveIndicesToKeys(searchResult.solution), ErrNone, TRUE)

solvePhase1(built, cube) ==
  IF isInG1(cube)
  THEN PhaseResult(TRUE, <<>>, ErrNone, FALSE)
  ELSE phase1FromSearch(searchPhase1(built, getPhase1Coord(cube), config.maxPhase1Depth))

\* solvePhase2 once searchPhase2 has returned.
phase2FromSearch(searchResult) ==
  IF ~searchResult.found
  THEN PhaseResult(FALSE, <<>>, ErrPhase2, TRUE)
  ELSE PhaseResult(TRUE, moveIndicesToKeys(searchResult.solution), ErrNone, TRUE)

solvePhase2(built, cube) ==
  IF isSolved(cube)
  THEN PhaseResult(TRUE, <<>>, ErrNone, FALSE)
  ELSE phase2FromSearch(searchPhase2(built, getPhase2Coord(cube), config.maxPhase2Depth))

\* A plausible slip: the check is skipped.
verifySolutionSkipped(originalCube, solution) == TRUE

\* .valid
verifySolution(originalCube, solution) ==
  isSolved(applyMoveSequence(originalCube, solution))

\* The phases whose search ran.
Ran(phaseResult, name) == IF phaseResult.searched THEN {name} ELSE {}

\* What a call of solve leaves behind: the Solution returned, the searches it
\* called, and this.initialized.
Outcome(solution, searched, built) ==
  [solution |-> solution, searched |-> searched, initialized |-> built]

\* solve from the verification on.
solveVerified(built, phase1Result, phase2Result, solution, valid) ==
  Outcome(Solution(solution, invertMoveSequence(solution), phase1Result.moves,
                   phase2Result.moves, Len(solution), valid,
                   IF valid THEN ErrNone ELSE ErrVerify),
          Ran(phase1Result, "phase1") \cup Ran(phase2Result, "phase2"), built)

\* solve once solvePhase2 has returned.
solveAfterPhase2(built, cube, phase1Result, phase2Result) ==
  IF ~phase2Result.success
  THEN Outcome(Solution(<<>>, <<>>, phase1Result.moves, <<>>, 0, FALSE,
                        phase2Result.error),
               Ran(phase1Result, "phase1") \cup Ran(phase2Result, "phase2"), built)
  ELSE solveVerified(built, phase1Result, phase2Result,
                     phase1Result.moves \o phase2Result.moves,
                     verifySolution(cube, phase1Result.moves \o phase2Result.moves))

\* solve once the phase-1 moves have been applied.
solveFromIntermediate(built, cube, phase1Result, intermediateCube) ==
  IF ~isInG1(intermediateCube)
  THEN Outcome(Solution(<<>>, <<>>, <<>>, <<>>, 0, FALSE, ErrG1),
               Ran(phase1Result, "phase1"), built)
  ELSE solveAfterPhase2(built, cube, phase1Result, solvePhase2(built, intermediateCube))

\* solve once solvePhase1 has returned.
solveAfterPhase1(built, cube, phase1Result) ==
  IF ~phase1Result.success
  THEN Outcome(Solution(<<>>, <<>>, <<>>, <<>>, 0, FALSE, phase1Result.error),
               Ran(phase1Result, "phase1"), built)
  ELSE solveFromIntermediate(built, cube, phase1Result,
                             applyMoveSequence(cube, phase1Result.moves))

\* A plausible slip: no early return, and phase 1 searches without asking
\* whether the cube is in G1 already.
solveBodySearchFirst(built, cube) ==
  solveAfterPhase1(built, cube,
    phase1FromSearch(searchPhase1(built, getPhase1Coord(cube), config.maxPhase1Depth)))

\* The body of solve once the tables are in the state `built`.
solveBody(built, cube) ==
  IF isSolved(cube)
  THEN Outcome(Solution(<<>>, <<>>, <<>>, <<>>, 0, TRUE, ErrNone), {}, built)
  ELSE solveAfterPhase1(built, cube, solvePhase1(built, cube))

\* A plausible slip: the lazy initialisation is left out, so the searches read
\* the tables as they stand.
solveNoInit(init, cube) == solveBody(init, cube)

\* if (!this.initialized) await this.initialize(); then the body.
solve(init, cube) == solveBody(TRUE, cube)

\* ------------------------------------------------------------------ state

VARIABLES
  cube,         \* the cube in hand: the one turned, the one handed to solve
  nmoves,       \* turns applied to build it
  tampered,     \* "none", "twist" (orientations drawn as randomState draws
                \* them) or "flip" (one edge flipped: an invalid cube)
  prev,         \* the cube before the last applyMove
  last,         \* the last applyMove: its kind and the moves it was made of
  initialized,  \* KociembaSolver.initialized: the tables are built
  pc,           \* "build", "done" (solved once), "again" (solved twice)
  result,       \* the Solution of the last solve
  searched,     \* the phases whose search the last solve called
  firstResult   \* the Solution of the first solve of this cube

vars == <<cube, nmoves, tampered, prev, last, initialized, pc, result, searched,
          firstResult>>

solverVars == <<initialized, pc, result, searched, firstResult>>

NotRun == Solution(<<>>, <<>>, <<>>, <<>>, 0, FALSE, "not run")

Step(kind, m1, m2) == [kind |-> kind, m1 |-> m1, m2 |-> m2]

\* The faces the solver's inputs are turned by: MOVES.U .. MOVES.B.
FaceIdx == 0..5

\* Corners whose orientation the input draws non-zero; slot 7 balances the sum.
TwistSlots == {0, 4}

\* Edges flipped alone in an invalid input.
FlipSlots == {0, 8}

Init ==
  /\ cube = solvedCube
  /\ nmoves = 0
  /\ tampered = "none"
  /\ prev = solvedCube
  /\ last = Step("none", 0, 0)
  /\ initialized = FALSE
  /\ pc = "build"
  /\ result = NotRun
  /\ searched = {}
  /\ firstResult = NotRun

\* randomState: cOri[i] drawn t, cOri[7] = (3 - sum) % 3.
TwistCorner(i, t) ==
  /\ pc = "build"
  /\ nmoves = 0
  /\ tampered = "none"
  /\ cube' = [cube EXCEPT !.cOri = [j \in CornerIdx |->
                 IF j = i THEN t ELSE IF j = NCorners - 1 THEN (3 - t) % 3 ELSE 0]]
  /\ tampered' = "twist"
  /\ UNCHANGED <<nmoves, prev, last, solverVars>>

\* A cube with one edge flipped (the test's invalidEO).
FlipEdge(i) ==
  /\ pc = "build"
  /\ nmoves = 0
  /\ tampered = "none"
  /\ cube' = [cube EXCEPT !.eOri[i] = 1]
  /\ tampered' = "flip"
  /\ UNCHANGED <<nmoves, prev, last, solverVars>>

\* applyMove(cube, MOVES.X), as the tests scramble.
Turn(f) ==
  /\ pc = "build"
  /\ nmoves < MaxScramble
  /\ cube' = applyMove(cube, MOVES[f])
  /\ prev' = cube
  /\ last' = Step("turn", 3 * f, 3 * f)
  /\ nmoves' = nmoves + 1
  /\ UNCHANGED <<tampered, solverVars>>

\* solver.initialize()
Initialize ==
  /\ ~initialized
  /\ initialized' = TRUE
  /\ UNCHANGED <<cube, nmoves, tampered, prev, last, pc, result, searched, firstResult>>

\* solver.solve(cube), the first time
Solve ==
  /\ pc = "build"
  /\ \E out \in {solve(initialized, cube)} :
        /\ result' = out.solution
        /\ firstResult' = out.solution
        /\ searched' = out.searched
        /\ initialized' = out.initialized
  /\ pc' = "done"
  /\ UNCHANGED <<cube, nmoves, tampered, prev, last>>

\* solver.solve(cube) on the same cube with the same caps, a second time
SolveAgain ==
  /\ pc = "done"
  /\ \E out \in {solve(initialized, cube)} :
        /\ result' = out.solution
        /\ searched' = out.searched
        /\ initialized' = out.initialized
  /\ pc' = "again"
  /\ UNCHANGED <<cube, nmoves, tampered, prev, last, firstResult>>

Next ==
  \/ \E i \in TwistSlots, t \in 1..2 : TwistCorner(i, t)
  \/ \E i \in FlipSlots : FlipEdge(i)
  \/ \E f \in FaceIdx : Turn(f)
  \/ Initialize
  \/ Solve
  \/ SolveAgain

Spec == Init /\ [][Next]_vars

\* ------------------------------------------------------------------ cubie runs

\* applyMove(cube, getMoveByIndex(m)) for any of the 18 moves.
ApplyMove(m) ==
  /\ nmoves < MaxTurns
  /\ cube' = applyMove(cube, getMoveByIndex(m))
  /\ prev' = cube
  /\ last' = Step("turn", m, m)
  /\ nmoves' = nmoves + 1
  /\ UNCHANGED <<tampered, solverVars>>

\* applyMove(cube, composeMoves(m1, m2))
ApplyComposed(m1, m2) ==
  /\ nmoves + 2 <= MaxTurns
  /\ cube' = applyMove(cube, composeMoves(getMoveByIndex(m1), getMoveByIndex(m2)))
  /\ prev' = cube
  /\ last' = Step("composed", m1, m2)
  /\ nmoves' = nmoves + 2
  /\ UNCHANGED <<tampered, solverVars>>

\* applyMove(cube, invertMove(m)) after applyMove(prev, m)
ApplyInverse ==
  /\ last.kind = "turn"
  /\ cube' = applyMove(cube, invertMove(getMoveByIndex(last.m1)))
  /\ last' = Step("inverse", last.m1, last.m1)
  /\ UNCHANGED <<nmoves, tampered, prev, solverVars>>

\* applyMove(cube, m) once more with the move just applied: last.m2 counts the
\* applications in a row, up to four.
RepeatMove ==
  /\ \/ last.kind = "turn"
     \/ last.kind = "repeat" /\ last.m2 < 4
  /\ cube' = applyMove(cube, getMoveByIndex(last.m1))
  /\ last' = Step("repeat", last.m1, IF last.kind = "turn" THEN 2 ELSE last.m2 + 1)
  /\ UNCHANGED <<nmoves, tampered, prev, solverVars>>

CubieNext ==
  \/ \E i \in TwistSlots, t \in 1..2 : TwistCorner(i, t)
  \/ \E i \in FlipSlots : FlipEdge(i)
  \/ \E m \in MoveIdx : ApplyMove(m)
  \/ \E m1, m2 \in MoveIdx : ApplyComposed(m1, m2)
  \/ ApplyInverse
  \/ RepeatMove

CubieSpec == Init /\ [][CubieNext]_vars

\* ------------------------------------------------------------------ coordinate runs

\* buildCoordinateMoveTable's first step for coordinate c and value coord:
\* tempCube = solvedCube(); setCoord(tempCube, coord).
SetCoord(c, coord) ==
  /\ last.kind = "none"
  /\ cube' = setCoord(c, solvedCube, coord)
  /\ last' = Step("set", c, coord)
  /\ UNCHANGED <<nmoves, tampered, prev, solverVars>>

\* One table row is started from each fresh solved cube.
CoordNext ==
  /\ last.kind = "none"
  /\ \E c \in COORDS : \E coord \in 0..(sizeOf(c) - 1) : SetCoord(c, coord)

CoordSpec == Init /\ [][CoordNext]_vars

\* ------------------------------------------------------------------ pruning runs

\* table.get(index) on an entry the build has set.
ReadEntry(name, index) ==
  /\ initialized
  /\ last.kind = "none"
  /\ last' = Step("entry", name, index)
  /\ UNCHANGED <<cube, nmoves, tampered, prev, solverVars>>

PruneNext ==
  \/ Initialize
  \/ /\ initialized
     /\ last.kind = "none"
     /\ \E name \in TABLES : \E index \in DOMAIN tableOf(name) : ReadEntry(name, index)

PruneSpec == Init /\ [][PruneNext]_vars

\* ------------------------------------------------------------------ heuristic runs

\* One more of the 18 moves on a cube turned from solved by phase-1 moves.
Phase1Move(m) ==
  /\ last.kind \in {"none", "phase1"}
  /\ nmoves < MaxCap
  /\ cube' = applyMove(cube, getMoveByIndex(m))
  /\ prev' = cube
  /\ last' = Step("phase1", m, m)
  /\ nmoves' = nmoves + 1
  /\ UNCHANGED <<tampered, solverVars>>

\* One more of PHASE2_MOVES on a cube turned from solved by phase-2 moves.
Phase2Move(m) ==
  /\ last.kind \in {"none", "phase2"}
  /\ nmoves < MaxCap
  /\ cube' = applyMove(cube, getMoveByIndex(m))
  /\ prev' = cube
  /\ last' = Step("phase2", m, m)
  /\ nmoves' = nmoves + 1
  /\ UNCHANGED <<tampered, solverVars>>

\* setCornerOrientation(cube, co): the cube in hand with its corners
\* oriented anew, by a value whose distance the built table knows; it ends
\* the building of the cube.
OrientCorners(co) ==
  /\ cube' = setCornerOrientation(cube, co)
  /\ prev' = cube
  /\ last' = Step("oriented", co, co)
  /\ nmoves' = nmoves + 1
  /\ UNCHANGED <<tampered, solverVars>>

HeurNext ==
  \/ Initialize
  \/ last.kind \in {"none", "phase1"} /\ nmoves < MaxCap
       /\ \E co \in DOMAIN COPruningTable : OrientCorners(co)
  \/ \E m \in Range(PHASE1_MOVES) : Phase1Move(m)
  \/ \E m \in Range(PHASE2_MOVES) : Phase2Move(m)

HeurSpec == Init /\ [][HeurNext]_vars

\* ------------------------------------------------------------------ solver properties

\* solve has returned (once or twice).
Returned == pc \in {"done", "again"}

\* C1: whenever solve returns success = true, applying result.moves in order
\* to the input cube yields the solved cube.
C1_SuccessMovesSolve ==
  (Returned /\ result.success) => isSolved(applyMoveSequence(cube, result.moves))

\* C1's case: a successful solve with a three-move solution.
C1_Witness == pc = "done" /\ result.success /\ Len(result.moves) >= 3

\* C2: every cube that satisfies isValidCube is solved with success = true.
\* The two exhaustion errors depend on the caps and are left aside, so that
\* what remains does not: a result found under MaxCap is the result under the
\* default caps.
C2_ValidCubeSucceeds ==
  (Returned /\ isValidCube(cube) /\ result.error \notin {ErrPhase1, ErrPhase2})
    => result.success

\* C3: for a valid input cube solve never returns the G1 failure nor the
\* verification failure.
C3_NoInternalFailure ==
  (Returned /\ isValidCube(cube)) => result.error \notin {ErrG1, ErrVerify}

\* C4: when the input cube is not valid, solve refuses it: it fails with an
\* error that is none of the search and internal errors, and calls neither
\* phase's search.
C4_InvalidInputRefused ==
  (Returned /\ ~isValidCube(cube)) =>
     /\ ~result.success
     /\ result.error \notin {ErrPhase1, ErrPhase2, ErrG1, ErrVerify}
     /\ searched = {}

\* C5: after a successful solve of cube, result.scramble is
\* invertMoveSequence(result.moves) and applying it to the solved cube yields
\* cube.
C5_ScrambleRebuildsCube ==
  (Returned /\ result.success) =>
     /\ result.scramble = invertMoveSequence(result.moves)
     /\ cubesEqual(applyMoveSequence(solvedCube, result.scramble), cube)

\* C5's case: a successful solve of an unsolved cube, with a scramble of two
\* moves or more.
C5_Witness ==
  pc = "done" /\ result.success /\ ~isSolved(cube) /\ Len(result.scramble) >= 2

C7_ValidityPreserved ==
  (last.kind = "turn" /\ isValidCube(prev)) => isValidCube(cube)

\* C8: each of the six generators has the arrays of the specification's
\* generator table, entry for entry: whichever generator is applied, it is the
\* table's row.
C8_GeneratorsAsTabled ==
  LET table == Arr(<<
        [cornerPerm     |-> Arr(<<3, 0, 1, 2, 4, 5, 6, 7>>),
         cornerOriDelta |-> Arr(<<0, 0, 0, 0, 0, 0, 0, 0>>),
         edgePerm       |-> Arr(<<3, 0, 1, 2, 4, 5, 6, 7, 8, 9, 10, 11>>),
         edgeOriDelta   |-> Arr(<<0, 0, 0, 0, 0, 0, 0, 0, 0, 0, 0, 0>>)],
        [cornerPerm     |-> Arr(<<4, 1, 2, 0, 7, 5, 6, 3>>),
         cornerOriDelta |-> Arr(<<2, 0, 0, 1, 1, 0, 0, 2>>),
         edgePerm       |-> Arr(<<8, 1, 2, 3, 11, 5, 6, 7, 4, 9, 10, 0>>),
         edgeOriDelta   |-> Arr(<<0, 0, 0, 0, 0, 0, 0, 0, 0, 0, 0, 0>>)],
        [cornerPerm     |-> Arr(<<1, 5, 2, 3, 0, 4, 6, 7>>),
         cornerOriDelta |-> Arr(<<1, 2, 0, 0, 2, 1, 0, 0>>),
         edgePerm       |-> Arr(<<0, 9, 2, 3, 4, 8, 6, 7, 1, 5, 10, 11>>),
         edgeOriDelta   |-> Arr(<<0, 1, 0, 0, 0, 1, 0, 0, 1, 1, 0, 0>>)],
        [cornerPerm     |-> Arr(<<0, 1, 2, 3, 5, 6, 7, 4>>),
         cornerOriDelta |-> Arr(<<0, 0, 0, 0, 0, 0, 0, 0>>),
         edgePerm       |-> Arr(<<0, 1, 2, 3, 5, 6, 7, 4, 8, 9, 10, 11>>),
         edgeOriDelta   |-> Arr(<<0, 0, 0, 0, 0, 0, 0, 0, 0, 0, 0, 0>>)],
        [cornerPerm     |-> Arr(<<0, 2, 6, 3, 4, 1, 5, 7>>),
         cornerOriDelta |-> Arr(<<0, 1, 2, 0, 0, 2, 1, 0>>),
         edgePerm       |-> Arr(<<0, 1, 10, 3, 4, 5, 9, 7, 8, 2, 6, 11>>),
         edgeOriDelta   |-> Arr(<<0, 0, 0, 0, 0, 0, 0, 0, 0, 0, 0, 0>>)],
        [cornerPerm     |-> Arr(<<0, 1, 3, 7, 4, 5, 2, 6>>),
         cornerOriDelta |-> Arr(<<0, 0, 1, 2, 0, 0, 2, 1>>),
         edgePerm       |-> Arr(<<0, 1, 2, 11, 4, 5, 6, 10, 8, 9, 3, 7>>),
         edgeOriDelta   |-> Arr(<<0, 0, 0, 1, 0, 0, 0, 1, 0, 0, 1, 1>>)] >>)
  IN \A f \in FaceIdx :
       (last.kind = "turn" /\ last.m1 = 3 * f) => MOVES[f] = table[f]

\* C9: applying composeMoves(m1, m2) to a cube gives the cube that applying m1
\* and then m2 gives, for every pair of the 18 operators.
C9_ComposedIsM1ThenM2 ==
  last.kind = "composed" =>
    cubesEqual(cube, applyMove(applyMove(prev, getMoveByIndex(last.m1)),
                               getMoveByIndex(last.m2)))

\* C10: applying invertMove(m) after m gives back the cube m was applied to,
\* for each of the 18 operators.
C10_InverseUndoes == last.kind = "inverse" => cubesEqual(cube, prev)

\* C10's case: a twisting move (F') has been applied to an unsolved cube and
\* then undone.
C10_Witness == last.kind = "inverse" /\ last.m1 = 8 /\ ~isSolved(prev)

\* C11: a quarter turn (a generator or its prime) applied four times in a row
\* gives back the cube it was first applied to.
C11_FourQuarterTurnsReturn ==
  (last.kind = "repeat" /\ last.m2 = 4 /\ last.m1 % 3 # 1) => cubesEqual(cube, prev)

\* C11's case: B, the generator whose edge cycle is not a four-cycle, has been
\* applied four times to a twisted cube.
C11_Witness ==
  last.kind = "repeat" /\ last.m2 = 4 /\ last.m1 = 15 /\ tampered = "twist"

\* ------------------------------------------------------------------ coordinate properties

\* C12: for each of the six coordinates and every value k below its size,
\* the getter reads k back from the solved cube the setter has set to k.
C12_CoordinateRoundTrip ==
  last.kind = "set" => getCoord(last.m1, cube) = last.m2

\* C12's case: the last value of the largest coordinate has been set.
C12_Witness == last.kind = "set" /\ last.m1 = "udep" /\ last.m2 = UDEP_SIZE - 1

\* C13, as claimed: for every valid cube, each of the 18 moves and each of the
\* six coordinates, the move-table entry for the cube's coordinate is the
\* coordinate of the turned cube.
C13_EquivariantEverywhere ==
  (last.kind = "turn" /\ isValidCube(prev)) =>
     /\ applyMoveToEO(getEdgeOrientation(prev), last.m1) = getEdgeOrientation(cube)
     /\ applyMoveToCO(getCornerOrientation(prev), last.m1) = getCornerOrientation(cube)
     /\ applyMoveToESlice(getESlice(prev), last.m1) = getESlice(cube)
     /\ applyMoveToCP(getCornerPermutation(prev), last.m1) = getCornerPermutation(cube)
     /\ applyMoveToUDEP(getUDEdgePermutation(prev), last.m1) = getUDEdgePermutation(cube)
     /\ applyMoveToEP(getESlicePermutation(prev), last.m1) = getESlicePermutation(cube)

\* C13, amended: the same for eo, co, eslice and cp; for udep and ep when the
\* move is one of the ten phase-2 moves.
C13_EquivariantInDomain ==
  (last.kind = "turn" /\ isValidCube(prev)) =>
     /\ applyMoveToEO(getEdgeOrientation(prev), last.m1) = getEdgeOrientation(cube)
     /\ applyMoveToCO(getCornerOrientation(prev), last.m1) = getCornerOrientation(cube)
     /\ applyMoveToESlice(getESlice(prev), last.m1) = getESlice(cube)
     /\ applyMoveToCP(getCornerPermutation(prev), last.m1) = getCornerPermutation(cube)
     /\ last.m1 \in Range(PHASE2_MOVES) =>
          /\ applyMoveToUDEP(getUDEdgePermutation(prev), last.m1)
               = getUDEdgePermutation(cube)
          /\ applyMoveToEP(getESlicePermutation(prev), last.m1)
               = getESlicePermutation(cube)

\* C13's case: a phase-2 move has turned a twisted cube that has an E-slice
\* edge among its U/D slots and both phase-2 edge coordinates away from 0.
C13_Witness ==
  /\ last.kind = "turn" /\ isValidCube(prev) /\ tampered = "twist"
  /\ \E i \in 0..7 : prev.ePerm[i] >= 8
  /\ last.m1 \in Range(PHASE2_MOVES)
  /\ getUDEdgePermutation(prev) # 0
  /\ getESlicePermutation(prev) # 0

C15_DecodeLeavesRestSolved ==
  last.kind = "set" =>
     /\ \A c \in COORDS \ {last.m1} : getCoord(c, cube) = 0
     /\ last.m2 = 0 => isSolved(cube)

\* ------------------------------------------------------------------ pruning properties

C18_HeuristicsAdmissible ==
  LET inverse == 3 * (last.m1 \div 3) + (2 - (last.m1 % 3))
      c1 == getPhase1Coord(cube)
      c2 == getPhase2Coord(cube)
  IN /\ (initialized /\ last.kind = "phase1") =>
          /\ nextPhase1Coord(c1, inverse) = getPhase1Coord(prev)
          /\ phase1Heuristic(initialized, c1.eo, c1.co, c1.eslice) <= nmoves
     /\ (initialized /\ last.kind = "phase2") =>
          /\ inverse \in Range(PHASE2_MOVES)
          /\ nextPhase2Coord(c2, inverse) = getPhase2Coord(prev)
          /\ phase2Heuristic(initialized, c2.cp, c2.udep, c2.ep) <= nmoves

\* C18's case: a tuple whose phase-2 heuristic is exactly the number of
\* moves that bring it to 0, at the cap.
C18_Witness ==
  /\ initialized /\ last.kind = "phase2" /\ nmoves = MaxCap
  /\ phase2Heuristic(initialized, getCornerPermutation(cube),
                     getUDEdgePermutation(cube), getESlicePermutation(cube)) = MaxCap

\* C19: solving the solved cube succeeds with moves, scramble, phase1Moves and
\* phase2Moves all empty, and no phase's search is called.
C19_SolvedCubeNeedsNoSearch ==
  (pc # "build" /\ isSolved(cube)) =>
     /\ result.success
     /\ result.moves = <<>>
     /\ result.scramble = <<>>
     /\ result.phase1Moves = <<>>
     /\ result.phase2Moves = <<>>
     /\ searched = {}

\* C19's case: the solved cube, never turned, has been handed to solve.
C19_Witness == pc = "done" /\ isSolved(cube) /\ nmoves = 0 /\ initialized

\* C20: solving the cube turned from solved by U and then R returns exactly
\* the two moves R', U' (keys Rp, Up).
C20_SolvesURWithRpUp ==
  (pc # "build" /\ cubesEqual(cube, applyMove(applyMove(solvedCube, MOVES[0]), MOVES[1]))) =>
     result.moves = <<Key("R", "p"), Key("U", "p")>>

\* C21: every successful solve returns a solution whose total length,
\* phase1Moves plus phase2Moves, is at most config.maxTotalDepth.
C21_TotalWithinCombinedCap ==
  (pc # "build" /\ result.success) =>
     Len(result.phase1Moves) + Len(result.phase2Moves) <= config.maxTotalDepth

\* C22: the per-phase caps are respected. In every result of solve
\* phase1Moves is no longer than maxPhase1Depth, phase2Moves no longer than
\* maxPhase2Depth and stats.totalDepth no larger than their sum; and under
\* every smaller cap the search of each phase, run on the cube handed to
\* solve, returns nothing longer than that cap.
C22_PhaseCapsRespected ==
  pc # "build" =>
     /\ Len(result.phase1Moves) <= config.maxPhase1Depth
     /\ Len(result.phase2Moves) <= config.maxPhase2Depth
     /\ result.totalDepth <= config.maxPhase1Depth + config.maxPhase2Depth
     /\ \A cap \in 0..config.maxPhase1Depth :
          LET r == searchPhase1(initialized, getPhase1Coord(cube), cap)
          IN r.found => Len(r.solution) <= cap
     /\ isInG1(cube) =>
          \A cap \in 0..config.maxPhase2Depth :
             LET r == searchPhase2(initialized, getPhase2Coord(cube), cap)
             IN r.found => Len(r.solution) <= cap

\* C22's case: a solve that used both caps in full.
C22_Witness ==
  /\ pc = "done" /\ result.success
  /\ Len(result.phase1Moves) = config.maxPhase1Depth
  /\ Len(result.phase2Moves) = config.maxPhase2Depth
  /\ ~searchPhase1(initialized, getPhase1Coord(cube), config.maxPhase1Depth - 1).found

SequenceInputs ==
  LET over(keys, n) == UNION {[1..k -> keys] : k \in 0..n}
  IN over(Range(MOVE_KEYS), MaxTurns)
       \cup over({key \in Range(MOVE_KEYS) : key.face = "U"}
                   \cup {Key("B", ""), Key("B", "p")}, MaxRun)

\* applyMoveSequence(cube, s)
ApplySequence(s) ==
  /\ last.kind = "none"
  /\ cube' = applyMoveSequence(cube, s)
  /\ prev' = cube
  /\ last' = Step("sequence", s, s)
  /\ UNCHANGED <<nmoves, tampered, solverVars>>

\* applyMoveSequence(cube, invertMoveSequence(s)) after applyMoveSequence(prev, s)
ApplyInverted ==
  /\ last.kind = "sequence"
  /\ cube' = applyMoveSequence(cube, invertMoveSequence(last.m1))
  /\ last' = Step("inverted", last.m1, invertMoveSequence(last.m1))
  /\ UNCHANGED <<nmoves, tampered, prev, solverVars>>

\* applyMoveSequence(prev, simplifyMoveSequence(s)), beside applyMoveSequence(prev, s):
\* prev becomes the cube s itself led to, cube the one its simplification leads to.
ApplySimplified ==
  /\ last.kind = "sequence"
  /\ cube' = applyMoveSequence(prev, simplifyMoveSequence(last.m1))
  /\ prev' = cube
  /\ last' = Step("simplified", last.m1, simplifyMoveSequence(last.m1))
  /\ UNCHANGED <<nmoves, tampered, solverVars>>

\* The strings handed to parseMove: up to MaxLen characters among face
\* letters in both cases, a letter that is no face, the modifiers, a digit
\* that is no modifier, and the blank.
TokenInputs ==
  UNION {[1..k -> {"U", "B", "u", "r", "X", "'", "P", "p", "2", "3", " "}] : k \in 0..MaxLen}

\* parseMove(moveStr)
Parse(moveStr) ==
  /\ last' = Step("parse", moveStr, parseMove(moveStr))
  /\ UNCHANGED <<cube, nmoves, tampered, prev, solverVars>>

\* The input cube is drawn before the sequence is applied to it.
SequenceNext ==
  \/ last.kind = "none" /\ \E i \in TwistSlots, t \in 1..2 : TwistCorner(i, t)
  \/ last.kind = "none" /\ \E i \in FlipSlots : FlipEdge(i)
  \/ last.kind = "none" /\ \E s \in SequenceInputs : ApplySequence(s)
  \/ ApplyInverted
  \/ ApplySimplified
  \/ last.kind = "none" /\ tampered = "none" /\ \E moveStr \in TokenInputs : Parse(moveStr)

SequenceSpec == Init /\ [][SequenceNext]_vars

\* C24: invertMoveSequence(s) is s reversed with every move inverted (X and X'
\* exchanged, X2 kept), and applying s and then invertMoveSequence(s) to a cube
\* returns that cube.
C24_InvertedSequenceUndoes ==
  last.kind = "inverted" =>
     /\ Len(last.m2) = Len(last.m1)
     /\ \A n \in 1..Len(last.m1) :
          LET move == last.m1[Len(last.m1) + 1 - n]
          IN /\ last.m2[n].face = move.face
             /\ getMoveQuarterTurns(last.m2[n]) = 4 - getMoveQuarterTurns(move)
     /\ cubesEqual(cube, prev)

\* C24's case: a sequence of a quarter turn and a prime on different faces,
\* applied to a twisted cube and undone.
C24_Witness ==
  /\ last.kind = "inverted" /\ tampered = "twist"
  /\ last.m1 = <<Key("B", ""), Key("R", "p")>>
  /\ last.m2 = <<Key("R", ""), Key("B", "p")>>

C26_ParsesExactlyTheGrammar ==
  last.kind = "parse" =>
     LET str == last.m1
         faces == [U |-> "U", u |-> "U", B |-> "B", r |-> "R"]
         token == /\ Len(str) \in 1..2
                  /\ str[1] \in DOMAIN faces
                  /\ Len(str) = 2 => str[2] \in {"'", "P", "p", "2"}
     IN IF token
        THEN /\ last.m2.face = faces[str[1]]
             /\ last.m2.suffix = IF Len(str) = 1 THEN ""
                                 ELSE IF str[2] = "2" THEN "2" ELSE "p"
        ELSE last.m2 = NoMove

\* C26, amended: the same with the blanks around the string left out of
\* account: parseMove returns the key of the token that is left when the
\* leading and trailing blanks are taken off, and null when what is left is
\* no token of the grammar.
C26_ParsesTheGrammarTrimmed ==
  last.kind = "parse" =>
     LET str == last.m1
         faces == [U |-> "U", u |-> "U", B |-> "B", r |-> "R"]
         inner == {n \in 1..Len(str) : str[n] # " "}
         first == CHOOSE n \in inner : \A k \in inner : n <= k
         final == CHOOSE n \in inner : \A k \in inner : n >= k
         token == /\ inner # {}
                  /\ final - first \in 0..1
                  /\ str[first] \in DOMAIN faces
                  /\ final # first => str[final] \in {"'", "P", "p", "2"}
     IN IF token
        THEN /\ last.m2.face = faces[str[first]]
             /\ last.m2.suffix = IF final = first THEN ""
                                 ELSE IF str[final] = "2" THEN "2" ELSE "p"
        ELSE last.m2 = NoMove

\* C26's case: a lower-case face letter with the letter P, after a blank,
\* parsed to the prime.
C26_Witness ==
  /\ last.kind = "parse"
  /\ last.m1 = <<" ", "r", "P">>
  /\ last.m2 = Key("R", "p")

\* ------------------------------------------------------------------ random states

\* randomPermutation(n, rng): draws[i] is rng.randomInt(i + 1) at step i of the
\* Fisher-Yates loop, i from n - 1 down to 1.
randomPermutation(n, draws) ==
  LET RECURSIVE shuffle(_, _)
      shuffle(array, i) ==
        IF i <= 0 THEN array
        ELSE shuffle([array EXCEPT ![i] = array[draws[i]], ![draws[i]] = array[i]], i - 1)
  IN shuffle([k \in 0..(n - 1) |-> k], n - 1)

\* A plausible slip: the edge permutation is left as drawn.
matchParityLeftAsDrawn(cPerm, ePerm) == ePerm

\* if (cornerParity !== edgeParity) [ePerm[0], ePerm[1]] = [ePerm[1], ePerm[0]]
matchParity(cPerm, ePerm) ==
  IF parityOfPermutation(cPerm) # parityOfPermutation(ePerm)
  THEN [ePerm EXCEPT ![0] = ePerm[1], ![1] = ePerm[0]]
  ELSE ePerm

\* randomState(rng), the stream of rng given by what randomInt returns from
\* it: the draws of the two shuffles, of cOri[0..6] and of eOri[0..10].  The
\* cube built, before isValidCube is asked about it.
randomState(rng) ==
  LET cOriSum == SumTo(rng.cOri, NCorners - 2) % 3
      RECURSIVE xorTo(_)
      xorTo(i) == IF i < 0 THEN 0 ELSE Xor(xorTo(i - 1), rng.eOri[i])
  IN [cPerm |-> randomPermutation(NCorners, rng.cPerm),
      cOri  |-> [i \in CornerIdx |->
                   IF i = NCorners - 1 THEN (3 - cOriSum) % 3 ELSE rng.cOri[i]],
      ePerm |-> matchParity(randomPermutation(NCorners, rng.cPerm),
                            randomPermutation(NEdges, rng.ePerm)),
      eOri  |-> [i \in EdgeIdx |->
                   IF i = NEdges - 1 THEN xorTo(NEdges - 2) ELSE rng.eOri[i]]]

\* The streams: the first MaxDraws draws of each shuffle are free, the later
\* ones leave their element in place; the orientation of the first corner
\* and of the last edge drawn are free, the others drawn 0.
RngInputs ==
  LET free(n) == {i \in 1..(n - 1) : i >= n - MaxDraws}
      shuffles(n) == {[i \in 1..(n - 1) |-> IF i \in free(n) THEN d[i] ELSE i] :
                        d \in {f \in [free(n) -> 0..(n - 1)] : \A i \in free(n) : f[i] <= i}}
      twists == {[i \in 0..(NCorners - 2) |-> IF i = 0 THEN o ELSE 0] : o \in 0..2}
      flips == {[i \in 0..(NEdges - 2) |-> IF i = 10 THEN o ELSE 0] : o \in 0..1}
  IN [cPerm : shuffles(NCorners), ePerm : shuffles(NEdges), cOri : twists, eOri : flips]

\* randomState(rng): returns the cube, or throws when isValidCube refuses it.
RandomState(rng) ==
  /\ cube' = randomState(rng)
  /\ last' = Step("random", rng,
                  IF isValidCube(randomState(rng)) THEN "returned" ELSE "thrown")
  /\ UNCHANGED <<nmoves, tampered, prev, solverVars>>

RandomNext == last.kind = "none" /\ \E rng \in RngInputs : RandomState(rng)

RandomSpec == Init /\ [][RandomNext]_vars

\* C27: whatever the stream of draws, randomState returns, without throwing
\* 'Generated invalid cube state', a cube whose cPerm and ePerm are
\* permutations of equal parity, whose corner orientations add up to 0
\* modulo 3 and whose edge orientations add up to 0 modulo 2.
C27_RandomStateIsValid ==
  last.kind = "random" =>
     LET inversions(perm, n) ==
           Cardinality({p \in (0..(n - 1)) \X (0..(n - 1)) :
                          p[1] < p[2] /\ perm[p[1]] > perm[p[2]]})
     IN /\ last.m2 = "returned"
        /\ {cube.cPerm[i] : i \in CornerIdx} = CornerIdx
        /\ {cube.ePerm[i] : i \in EdgeIdx} = EdgeIdx
        /\ inversions(cube.cPerm, NCorners) % 2 = inversions(cube.ePerm, NEdges) % 2
        /\ SumTo(cube.cOri, NCorners - 1) % 3 = 0
        /\ SumTo(cube.eOri, NEdges - 1) % 2 = 0
        /\ \A i \in CornerIdx : cube.cOri[i] \in 0..2
        /\ \A i \in EdgeIdx : cube.eOri[i] \in 0..1

\* C27's case: the shuffles drew permutations of different parity (the
\* corners moved, the edges not), and orientations were drawn non-zero.
C27_Witness ==
  /\ last.kind = "random"
  /\ randomPermutation(NCorners, last.m1.cPerm) # [k \in CornerIdx |-> k]
  /\ randomPermutation(NEdges, last.m1.ePerm) = [k \in EdgeIdx |-> k]
  /\ cube.ePerm # [k \in EdgeIdx |-> k]
  /\ cube.cOri[0] = 2 /\ cube.eOri[10] = 1

\* C28: whenever searchPhase1 returns a move sequence for the coordinates of a
\* cube, following the sequence through the coordinate move tables brings eo,
\* co and eslice all to 0.
C28_Phase1GoalIsAllZero ==
  initialized =>
     LET searchResult == searchPhase1(initialized, getPhase1Coord(cube), config.maxPhase1Depth)
         RECURSIVE follow(_, _)
         follow(coord, n) ==
           IF n > Len(searchResult.solution) THEN coord
           ELSE follow(nextPhase1Coord(coord, searchResult.solution[n]), n + 1)
         reached == follow(getPhase1Coord(cube), 1)
     IN searchResult.found =>
          reached.eo = 0 /\ reached.co = 0 /\ reached.eslice = 0

\* C29: the ten phase-2 moves keep a cube in G1: when every edge orientation
\* is 0 and the E-slice edges are in slots 8..11 (isInG1) before one of U, U2,
\* U', D, D2, D', R2, L2, F2, B2, they are after it.
C29_Phase2MovesKeepG1 ==
  (last.kind = "turn" /\ last.m1 \in Range(PHASE2_MOVES) /\ isInG1(prev)) =>
     /\ \A i \in EdgeIdx : cube.eOri[i] = 0
     /\ {cube.ePerm[pos] : pos \in 8..11} = 8..11

\* C29's case: B2 applied to a G1 cube that is neither solved nor untwisted.
C29_Witness ==
  /\ last.kind = "turn" /\ last.m1 = 16 /\ isInG1(prev)
  /\ tampered = "twist" /\ nmoves = MaxTurns /\ ~isInG1(applyMove(prev, getMoveByIndex(15)))

\* C30: each of the ten phase-2 moves maps a cube whose corner orientations
\* are all 0 to a cube whose corner orientations are all 0.
C30_Phase2MovesKeepCornersUntwisted ==
  (last.kind = "turn" /\ last.m1 \in Range(PHASE2_MOVES)
     /\ \A i \in CornerIdx : prev.cOri[i] = 0) =>
        \A i \in CornerIdx : cube.cOri[i] = 0

\* C30's case: a half turn of a face whose quarter turn twists corners,
\* applied to an untwisted cube that is not the solved one.
C30_Witness ==
  /\ last.kind = "turn" /\ last.m1 = 7 /\ nmoves = MaxTurns
  /\ \A i \in CornerIdx : prev.cOri[i] = 0
  /\ \E i \in CornerIdx : applyMove(prev, getMoveByIndex(6)).cOri[i] # 0

\* C31: the sequence searchPhase1 or searchPhase2 returns is a shortest one:
\* no sequence of the phase's moves with fewer moves takes the start
\* coordinates to the goal the search tests for (eo and eslice 0 in phase 1;
\* cp, udep and ep 0 in phase 2).
C31_SearchReturnsShortest ==
  LET RECURSIVE after1(_)
      after1(k) == IF k = 0 THEN {getPhase1Coord(cube)}
                   ELSE {nextPhase1Coord(c, m) : c \in after1(k - 1), m \in Range(PHASE1_MOVES)}
      RECURSIVE after2(_)
      after2(k) == IF k = 0 THEN {getPhase2Coord(cube)}
                   ELSE {nextPhase2Coord(c, m) : c \in after2(k - 1), m \in Range(PHASE2_MOVES)}
      r1 == searchPhase1(initialized, getPhase1Coord(cube), config.maxPhase1Depth)
      r2 == searchPhase2(initialized, getPhase2Coord(cube), config.maxPhase2Depth)
  IN /\ (initialized /\ last.kind \in {"none", "phase1", "oriented"} /\ r1.found) =>
          \A k \in 0..(Len(r1.solution) - 1) :
             \A c \in after1(k) : ~(c.eo = 0 /\ c.eslice = 0)
     /\ (initialized /\ last.kind \in {"none", "phase2"} /\ r2.found) =>
          \A k \in 0..(Len(r2.solution) - 1) :
             \A c \in after2(k) : ~(c.cp = 0 /\ c.udep = 0 /\ c.ep = 0)

\* C36: in every SearchResult of searchPhase1 or searchPhase2 the reported
\* depth equals the length of the returned solution.
C36_DepthIsSolutionLength ==
  LET r1 == searchPhase1(initialized, getPhase1Coord(cube), config.maxPhase1Depth)
      r2 == searchPhase2(initialized, getPhase2Coord(cube), config.maxPhase2Depth)
  IN /\ (initialized /\ last.kind \in {"none", "phase1", "oriented"} /\ r1.found) =>
          r1.depth = Len(r1.solution)
     /\ (initialized /\ last.kind \in {"none", "phase2"} /\ r2.found) =>
          r2.depth = Len(r2.solution)

\* C32: no sequence returned by searchPhase1 or searchPhase2 holds two
\* consecutive moves on the same face; nor does the depth-limited pass
\* (searchPhase1Depth, searchPhase2Depth) the deepening loops are made of,
\* run at the cap on a cube nearer than the cap.
C32_NoSameFaceTwice ==
  LET faces(seq) == \A n \in 1..(Len(seq) - 1) : (seq[n] \div 3) # (seq[n + 1] \div 3)
      c1 == getPhase1Coord(cube)
      c2 == getPhase2Coord(cube)
  IN /\ (initialized /\ last.kind \in {"none", "phase1"}) =>
          /\ faces(searchPhase1(initialized, c1, config.maxPhase1Depth).solution)
          /\ nmoves < MaxCap =>
                faces(searchPhase1Depth(initialized, c1, config.maxPhase1Depth, 0, -1).solution)
     /\ (initialized /\ last.kind \in {"none", "phase2"}) =>
          /\ faces(searchPhase2(initialized, c2, config.maxPhase2Depth).solution)
          /\ nmoves < MaxCap =>
                faces(searchPhase2Depth(initialized, c2, config.maxPhase2Depth, 0, -1).solution)

\* Reached: a cube two phase-2 moves from solved for which searchPhase2
\* returns two moves, and a cube two moves from solved for which searchPhase1
\* returns two moves.
C32_Witness ==
  /\ initialized
  /\ \/ /\ last.kind = "phase2"
        /\ Len(searchPhase2(initialized, getPhase2Coord(cube), config.maxPhase2Depth).solution) = 2
     \/ /\ last.kind = "phase1"
        /\ Len(searchPhase1(initialized, getPhase1Coord(cube), config.maxPhase1Depth).solution) = 2

\* C33: every move of a sequence returned by searchPhase2, and every move in
\* phase2Moves of the result of solve, is one of U, U2, U', D, D2, D', R2, L2,
\* F2, B2: its index (in MOVE_KEYS, for the keys solve returns) is in
\* {0, 1, 2, 9, 10, 11, 4, 13, 7, 16}.
C33_Phase2SolutionMoves ==
  (initialized /\ last.kind \in {"none", "phase2"}) =>
     LET r2 == searchPhase2(initialized, getPhase2Coord(cube), config.maxPhase2Depth)
         phase2Moves == solve(initialized, cube).solution.phase2Moves
     IN /\ \A n \in 1..Len(r2.solution) :
             r2.solution[n] \in {0, 1, 2, 9, 10, 11, 4, 13, 7, 16}
        /\ \A n \in 1..Len(phase2Moves) :
             phase2Moves[n] \in {MOVE_KEYS[m + 1] : m \in {0, 1, 2, 9, 10, 11, 4, 13, 7, 16}}

\* Reached: a cube built by R2 and then D, for which searchPhase2 returns two
\* moves and solve returns them as phase2Moves.
C33_Witness ==
  /\ initialized /\ last.kind = "phase2" /\ last.m1 = 9 /\ nmoves = 2
  /\ cube = applyMove(applyMove(solvedCube, getMoveByIndex(4)), getMoveByIndex(9))
  /\ Len(searchPhase2(initialized, getPhase2Coord(cube), config.maxPhase2Depth).solution) = 2
  /\ solve(initialized, cube).solution.phase2Moves
       = moveIndicesToKeys(
           searchPhase2(initialized, getPhase2Coord(cube), config.maxPhase2Depth).solution)

C35_IsInG1IffGoalTest ==
  isValidCube(cube) =>
     (isInG1(cube) <=> (getEdgeOrientation(cube) = 0 /\ getESlice(cube) = 0))

\* C35's case: a valid cube in G1 that is not solved, has twisted corners and
\* was turned; and it is one turn away from a valid cube outside G1.
C35_Witness ==
  /\ last.kind = "turn" /\ tampered = "twist" /\ isValidCube(cube)
  /\ isInG1(cube) /\ getCornerOrientation(cube) # 0
  /\ getEdgeOrientation(cube) = 0 /\ getESlice(cube) = 0
  /\ isValidCube(prev) /\ ~isInG1(prev) /\ getESlice(prev) # 0

\* ------------------------------------------------------------------ table builds

\* initializeMoveTables, for the table named: for every coordinate the build
\* takes off the queue before the horizon, the row of func(coord, moveIdx)
\* over the table's moves, in their order.
moveTableRows(name) ==
  LET RECURSIVE rowOf(_, _)
      rowOf(c, n) ==
        IF n = 0 THEN <<>>
        ELSE Append(rowOf(c, n - 1), tableFunc(name, c, movesOf(name)[n]))
      RECURSIVE rowsOf(_)
      rowsOf(coords) ==
        IF coords = {} THEN <<>>
        ELSE LET c == CHOOSE k \in coords : TRUE
             IN (c :> rowOf(c, Len(movesOf(name)))) @@ rowsOf(coords \ {c})
  IN rowsOf({k \in DOMAIN tableOf(name) : tableOf(name)[k] < PruneHorizon})

RECURSIVE processMovesAlwaysPush(_, _, _, _, _, _)
\* A plausible slip: queue.push stands after the if, not inside it.
processMovesAlwaysPush(moveTable, table, queue, currentCoord, nextDistance, n) ==
  IF n > Len(moveTable[currentCoord]) THEN [table |-> table, queue |-> queue]
  ELSE LET nextCoord == moveTable[currentCoord][n]
       IN IF nextCoord \notin DOMAIN table
          THEN processMovesAlwaysPush(moveTable,
                 table @@ [k \in {nextCoord} |-> Min(nextDistance, MAX_DISTANCE)],
                 Append(queue, nextCoord), currentCoord, nextDistance, n + 1)
          ELSE processMovesAlwaysPush(moveTable, table, Append(queue, nextCoord),
                 currentCoord, nextDistance, n + 1)

RECURSIVE processMoves(_, _, _, _, _, _)
\* for (const moveIdx of allowedMoves), from the n-th move on: nextCoord is
\* read from the move table, and an entry that is UNKNOWN_DISTANCE (outside
\* the table's domain) is set and enqueued.
processMoves(moveTable, table, queue, currentCoord, nextDistance, n) ==
  IF n > Len(moveTable[currentCoord]) THEN [table |-> table, queue |-> queue]
  ELSE LET nextCoord == moveTable[currentCoord][n]
       IN IF nextCoord \notin DOMAIN table
          THEN processMoves(moveTable,
                 table @@ [k \in {nextCoord} |-> Min(nextDistance, MAX_DISTANCE)],
                 Append(queue, nextCoord), currentCoord, nextDistance, n + 1)
          ELSE processMoves(moveTable, table, queue, currentCoord, nextDistance, n + 1)

\* initializePruningTables: initializeMoveTables(), then
\* buildPruningTable(table, func, 0, moves) on a fresh table:
\* table.set(goalCoord, 0); queue.push(goalCoord).  last.m2 holds the move
\* table, the pruning table and the queue, and nmoves is head, the number of
\* coordinates taken off the queue.
BuildStart(name) ==
  /\ last.kind = "none"
  /\ last' = Step("bfs", name,
                  [moveTable |-> moveTableRows(name), table |-> [k \in {0} |-> 0],
                   queue |-> <<0>>])
  /\ nmoves' = 0
  /\ UNCHANGED <<cube, tampered, prev, solverVars>>

\* One pass of while (head < queue.length): currentCoord = queue[head++] and,
\* unless its distance is MAX_DISTANCE - 1 or more (or at the horizon), its
\* successors are set and enqueued.
BuildStep ==
  /\ last.kind = "bfs"
  /\ nmoves < Len(last.m2.queue)
  /\ nmoves' = nmoves + 1
  /\ LET currentCoord == last.m2.queue[nmoves + 1]
         currentDistance == last.m2.table[currentCoord]
     IN last' = Step("bfs", last.m1,
                     IF currentDistance >= MAX_DISTANCE - 1 \/ currentDistance >= PruneHorizon
                     THEN last.m2
                     ELSE [moveTable |-> last.m2.moveTable] @@
                            processMoves(last.m2.moveTable, last.m2.table, last.m2.queue,
                                         currentCoord, currentDistance + 1, 1))
  /\ UNCHANGED <<cube, tampered, prev, solverVars>>

\* The loop ends when head has reached queue.length; the function returns.
BuildDone ==
  /\ last.kind = "bfs"
  /\ nmoves >= Len(last.m2.queue)
  /\ last' = Step("built", last.m1, last.m2)
  /\ UNCHANGED <<cube, nmoves, tampered, prev, solverVars>>

BuildNext ==
  \/ \E name \in TABLES : BuildStart(name)
  \/ BuildStep
  \/ BuildDone

\* The loop is sequential code: while a coordinate is left in the queue the
\* next pass runs, and when none is left the function returns.
BuildSpec ==
  /\ Init /\ [][BuildNext]_vars
  /\ WF_vars(BuildStep)
  /\ WF_vars(BuildDone)

====
